---- MODULE Spec2Model ----
(***************************************************************************)
(* Verification model of asubot (src/main.py): the message queue and its   *)
(* drain loop (TelegramBot._process_message_queue, send_message,           *)
(* shutdown), the notification tick (TelegramBot.check_notifications with  *)
(* Database.get_users_for_notification, ASUApi.get_schedule and            *)
(* TelegramBot.format_schedule), the broadcast                             *)
(* (TelegramBot.process_broadcast) and the schedule cache                  *)
(* (TelegramBot.get_cached_schedule, clear_expired_cache,                  *)
(* admin_clear_cache_handler).                                             *)
(***************************************************************************)
EXTENDS Integers, Sequences, FiniteSets, TLC

(***************************************************************************)
(* Bounds of the model.                                                    *)
(***************************************************************************)
\* number of send_message calls the environment makes
MaxEnq == 3
\* number of subscribers (rows of users / user_notifications)
NSub == 2
\* number of records in an upstream payload
MaxRecords == 2
\* number of groups
NGroups == 2
\* number of recipients of a broadcast
MaxRecipients == 10
\* number of cache keys (group_id, date)
NKeys == 2
\* minutes the clock of the cache runs
MaxTime == 7
\* number of records in a payload given to format_schedule on its own
MaxLessons == 3
MaxPage == 3

(***************************************************************************)
(* Program constants.                                                      *)
(***************************************************************************)
\* variant: a queue built with a maxsize below the number of requests offered
maxsize_bounded == MaxEnq - 1

\* asyncio.Queue() is built without maxsize: the default 0 means "no limit"
maxsize == 0
\* asyncio.sleep(0.05) in the drain loop, in milliseconds
min_delay == 50
\* "if success_count % 10 == 0": the progress report of process_broadcast
progress_every == 10
\* self.cache_timeout = timedelta(minutes=5), in minutes
cache_timeout == 5
\* RedisCache.default_ttl = 300 seconds, in minutes
default_ttl == 5
\* @lru_cache(maxsize=100) of get_cached_schedule
lru_maxsize == 100

VARIABLES
    \* ---- delivery queue and drain loop
    message_queue,   \* self.message_queue: sequence of request ids, head first
    nPut,            \* number of requests put so far; request ids are 1..nPut
    qpc,             \* position of _process_message_queue:
                     \*   "none" (queue_task is None), "get", "send", "sleep", "stopped"
    cur,             \* the request taken by the loop's current iteration, 0 if none
    elapsed,         \* milliseconds since the last bot.send_message call of the loop
                     \* started, capped at min_delay
    calls,           \* the requests for which bot.send_message was called, in order
    spaced,          \* TRUE iff every call but the first started min_delay after
                     \* the call before it
    status,          \* request id -> "new", "queued", "inflight", "delivered",
                     \*   "failed", "cancelled"
    attempts,        \* request id -> number of bot.send_message calls made for it
    task_done,       \* request id -> number of message_queue.task_done() calls
    errlog,          \* number of "Error processing message queue" log lines
    \* ---- preference store
    prefs,           \* subscriber -> [time, active]: row of user_notifications
    banned,          \* subscribers with users.is_banned = TRUE
    \* ---- notification tick
    tpc,             \* position of check_notifications: "idle", "fetch", "build",
                     \*   "send", "done"
    bucket,          \* the bucket whose run_daily timer started the running tick
    current_time,    \* the HH:MM the tick read from the clock, in minutes of the day
    users,           \* the rows returned by get_users_for_notification
    idx,             \* index in users of the row the for loop is at
    schedule,        \* the value get_schedule returned for the row
    message,         \* the body built for the row
    sent,            \* subscriber -> kind of the body the tick's bot.send_message
                     \*   call delivered to the subscriber: "none", "tomorrow"
                     \*   (a rendered schedule), "noclasses"
    lookup,          \* subscriber -> what the upstream answered for the row
    skipped,         \* subscriber -> number of "Error sending notification" log lines
    tickPuts,        \* number of message_queue.put calls made by the tick
    directCalls,     \* number of bot.send_message calls made by the tick itself
    \* ---- outbound channel, seen by all senders
    sinceAny,        \* milliseconds since the last bot.send_message call of any
                     \*   sender started, capped at min_delay; -1 before the first
    allSpaced,       \* TRUE iff every call but the first started min_delay after
                     \*   the call before it, whoever made the calls
    \* ---- process_broadcast
    bpc,             \* position: "idle", "send", "progress", "sleep", "report", "done"
    total_users,     \* len(users): the users that are not banned
    bidx,            \* index of the user the for loop is at
    success_count,
    fail_count,
    bcalls,          \* number of bot.send_message calls the broadcast made
    \* ---- ASUApi.get_schedule called on its own
    adapter_call,    \* the last call: its date, responses, result, request count
    \* ---- get_cached_schedule
    now,             \* the clock, in minutes
    cache_last_update, \* self.cache_last_update: key -> minute, -1 if absent
    schedule_cache,  \* self.schedule_cache: key -> value, None if absent
    lru,             \* the memo of @lru_cache: [key, value] entries, least
                     \*   recently used first
    lastInvoke,      \* key -> minute of the last self.api.get_schedule call made
                     \*   by get_cached_schedule for the key, -1 if none
    cleared_since,   \* key -> TRUE iff admin_clear_cache_handler ran after that
                     \*   call
    cache_op,        \* the last cache operation and what it returned
    \* ---- RedisCache
    redis_cache,     \* TRUE iff self.redis_cache is a RedisCache, FALSE iff None
    redis_up,        \* TRUE iff the redis server answers
    redis_store,     \* the redis database: key -> [value, set_at], NoEntry if absent
    redis_op,        \* the last operation on redis and how it ended
    \* ---- format_schedule called on its own
    fmt_in,          \* the schedule_data given to format_schedule
    fmt_out,         \* what format_schedule returned for it, NotYet before the call
    \* ---- button_handler
    handled,         \* the last callback button_handler got: its data, the
                     \*   branch of the if/elif chain taken, the handler called
                     \*   and what the store returned
    user_data,       \* context.user_data: key -> page number, NoPage if absent
    \* ---- application.job_queue
    jobs             \* the scheduled jobs, in the order of registration

qvars == <<message_queue, nPut, qpc, cur, elapsed, calls, spaced, status,
           attempts, task_done, errlog>>
pvars == <<prefs, banned>>
tvars == <<tpc, bucket, current_time, users, idx, schedule, message, sent,
           lookup, skipped, tickPuts, directCalls>>
svars == <<sinceAny, allSpaced>>
bvars == <<bpc, total_users, bidx, success_count, fail_count, bcalls>>
avars == <<adapter_call>>
cvars == <<now, cache_last_update, schedule_cache, lru, lastInvoke,
           cleared_since, cache_op>>
rvars == <<redis_cache, redis_up, redis_store, redis_op>>
fvars == <<fmt_in, fmt_out>>
\* the state of the components that the queue, the tick, the broadcast, the
\* adapter and the cache lookups leave alone
hvars == <<handled, user_data>>
jvars == <<jobs>>
ovars == <<rvars, fvars, hvars, jvars>>
vars == <<qvars, pvars, tvars, svars, bvars, avars, cvars, ovars>>

\* the record of calls after one more bot.send_message call starts
SpacedCall(flag, since) == flag /\ (since < 0 \/ since >= min_delay)

\* the time since the last call after min_delay or more has passed
Later(since) == IF since < 0 THEN since ELSE min_delay

Requests == 1..MaxEnq
Subscribers == 1..NSub

(***************************************************************************)
(* Delivery queue: asyncio.Queue                                           *)
(***************************************************************************)
\* asyncio.Queue.full(): a queue with maxsize <= 0 is never full
full(q) == IF maxsize <= 0 THEN FALSE ELSE Len(q) >= maxsize

\* variant: a put that adds at the head
QueuePut_front(q, r) == <<r>> \o q

\* asyncio.Queue.put on a queue that is not full: append at the tail
QueuePut(q, r) == Append(q, r)

\* asyncio.Queue.get on a queue that is not empty: the head
QueueGetItem(q) == Head(q)
QueueGetRest(q) == Tail(q)

\* TelegramBot.send_message(chat_id, message): await self.message_queue.put(...)
\* put suspends its caller while the queue is full
send_message ==
    /\ nPut < MaxEnq
    /\ ~full(message_queue)
    /\ nPut' = nPut + 1
    /\ message_queue' = QueuePut(message_queue, nPut + 1)
    /\ status' = [status EXCEPT ![nPut + 1] = "queued"]
    /\ UNCHANGED <<qpc, cur, elapsed, calls, spaced, attempts, task_done, errlog>>
    /\ UNCHANGED <<pvars, tvars, bvars, avars, cvars, ovars>>
    /\ UNCHANGED svars

\* TelegramBot.run: self.queue_task = asyncio.create_task(self._process_message_queue())
run ==
    /\ qpc = "none"
    /\ qpc' = "get"
    /\ UNCHANGED <<message_queue, nPut, cur, elapsed, calls, spaced, status,
                   attempts, task_done, errlog>>
    /\ UNCHANGED <<pvars, tvars, bvars, avars, cvars, ovars>>
    /\ UNCHANGED svars

\* message, chat_id = await self.message_queue.get(), then the call of
\* self.application.bot.send_message begins: nothing suspends in between
DrainGet ==
    /\ qpc = "get"
    /\ message_queue # <<>>
    /\ LET r == QueueGetItem(message_queue) IN
        /\ cur' = r
        /\ message_queue' = QueueGetRest(message_queue)
        /\ calls' = Append(calls, r)
        /\ spaced' = (spaced /\ (calls = <<>> \/ elapsed >= min_delay))
        /\ attempts' = [attempts EXCEPT ![r] = @ + 1]
        /\ status' = [status EXCEPT ![r] = "inflight"]
    /\ elapsed' = 0
    /\ qpc' = "send"
    /\ UNCHANGED <<nPut, task_done, errlog>>
    /\ UNCHANGED <<pvars, tvars, bvars, avars, cvars, ovars>>
    /\ allSpaced' = SpacedCall(allSpaced, sinceAny)
    /\ sinceAny' = 0

\* bot.send_message returned: the loop goes on to await asyncio.sleep(0.05)
DrainSendOk ==
    /\ qpc = "send"
    /\ status' = [status EXCEPT ![cur] = "delivered"]
    /\ qpc' = "sleep"
    /\ UNCHANGED <<message_queue, nPut, cur, elapsed, calls, spaced, attempts,
                   task_done, errlog>>
    /\ UNCHANGED <<pvars, tvars, bvars, avars, cvars, ovars>>
    /\ UNCHANGED svars

\* variant: a loop that ends when a send raises
AfterSendError_stop == "stopped"

\* where the loop goes after "except Exception": logging.error, next iteration
AfterSendError == "get"

\* variant: task_done() after the sleep instead of in a finally block
finally_task_done_only_on_success(n, raised) == IF raised THEN n ELSE n + 1

\* "finally: self.message_queue.task_done()": the count of task_done calls for
\* the request after the try block is left, by an exception or not
finally_task_done(n, raised) == n + 1

\* bot.send_message raised: the sleep is skipped, finally: task_done(), then
\* except Exception: logging.error, and the while loop goes round
DrainSendFail ==
    /\ qpc = "send"
    /\ status' = [status EXCEPT ![cur] = "failed"]
    /\ task_done' = [task_done EXCEPT ![cur] = finally_task_done(@, TRUE)]
    /\ errlog' = errlog + 1
    /\ cur' = 0
    /\ qpc' = AfterSendError
    /\ UNCHANGED <<message_queue, nPut, elapsed, calls, spaced, attempts>>
    /\ UNCHANGED <<pvars, tvars, bvars, avars, cvars, ovars>>
    /\ UNCHANGED svars

\* await asyncio.sleep(0.05) returned, finally: task_done()
DrainSleep ==
    /\ qpc = "sleep"
    /\ elapsed' = min_delay
    /\ task_done' = [task_done EXCEPT ![cur] = finally_task_done(@, FALSE)]
    /\ cur' = 0
    /\ qpc' = "get"
    /\ UNCHANGED <<message_queue, nPut, calls, spaced, status, attempts, errlog>>
    /\ UNCHANGED <<pvars, tvars, bvars, avars, cvars, ovars>>
    /\ sinceAny' = Later(sinceAny)
    /\ UNCHANGED allSpaced

\* time passes while the loop is suspended in get() on an empty queue or in
\* a bot.send_message call that takes long
Elapse ==
    /\ \/ qpc = "get" /\ message_queue = <<>>
       \/ qpc = "send"
    /\ elapsed < min_delay
    /\ elapsed' = min_delay
    /\ UNCHANGED <<message_queue, nPut, qpc, cur, calls, spaced, status,
                   attempts, task_done, errlog>>
    /\ UNCHANGED <<pvars, tvars, bvars, avars, cvars, ovars>>
    /\ sinceAny' = Later(sinceAny)
    /\ UNCHANGED allSpaced

\* TelegramBot.shutdown: self.queue_task.cancel(); CancelledError is raised at
\* the await the loop is suspended in, and "except asyncio.CancelledError: break"
shutdown ==
    /\ qpc \in {"get", "send", "sleep"}
    /\ qpc' = "stopped"
    /\ cur' = 0
    /\ IF qpc = "get"
       THEN UNCHANGED <<status, task_done>>
       ELSE /\ task_done' = [task_done EXCEPT ![cur] = finally_task_done(@, TRUE)]
            /\ status' = [status EXCEPT ![cur] =
                              IF qpc = "send" THEN "cancelled" ELSE @]
    /\ UNCHANGED <<message_queue, nPut, elapsed, calls, spaced, attempts, errlog>>
    /\ UNCHANGED <<pvars, tvars, bvars, avars, cvars, ovars>>
    /\ UNCHANGED svars

(***************************************************************************)
(* Upstream schedule source: ASUApi.get_schedule                           *)
(***************************************************************************)
GroupIds == 1..NGroups

\* groups.groupCode of a groupId (the code is what a lesson is filtered by)
groupCode(g) == 300 + g

\* the group a subscriber's user_notifications row is for
group_of(s) == ((s - 1) % NGroups) + 1

\* a record of schedule.records: lessonGroups as the set of groupIds in it;
\* wellformed = FALSE is a record that lacks a key format_schedule reads
Lessons == [lessonGroups : SUBSET GroupIds \ {{}}, lessonDate : {1},
            lessonTimeStart : {1}, wellformed : {TRUE}]
             \cup {[lessonGroups |-> {}, lessonDate |-> 1, lessonTimeStart |-> 1,
                    wellformed |-> FALSE]}

RECURSIVE SeqsUpTo(_, _)
SeqsUpTo(S, n) ==
    IF n = 0 THEN {<<>>}
    ELSE LET shorter == SeqsUpTo(S, n - 1) IN
         shorter \cup {Append(q, x) : q \in {t \in shorter : Len(t) = n - 1}, x \in S}

RecordLists == SeqsUpTo(Lessons, MaxRecords)

\* what one HTTP exchange with the upstream gives: status 0 stands for a
\* transport error (session.get or response.text() raises), parses = FALSE
\* for a body response.json() raises on, records for schedule.records (a
\* document without 'schedule' has none)
UpstreamResponses ==
    {[status |-> 0, parses |-> FALSE, records |-> <<>>],
     [status |-> 500, parses |-> FALSE, records |-> <<>>],
     [status |-> 200, parses |-> FALSE, records |-> <<>>]}
     \cup {[status |-> 200, parses |-> TRUE, records |-> rs] : rs \in RecordLists}

None == [kind |-> "None"]

\* the value returned with data: the document plus data['url'] = url
Data(records, path) ==
    [kind |-> "data", records |-> records, url |-> path,
     has_requested_group |-> FALSE, requested_group |-> 0]

\* path of a group: str(groupId); a lecturer path starts with 'lecturers/'
GroupPath(g) == [lecturers |-> FALSE, id |-> g]

\* variant: the second request is made for any date that is given
get_schedule_retry_any_date(path, date, r1, r2) ==
    IF r1.status # 200 \/ ~r1.parses THEN [result |-> None, requests |-> 1]
    ELSE IF r1.records # <<>>
         THEN [result |-> Data(r1.records, path), requests |-> 1]
    ELSE IF date # "none"
         THEN IF r2.status # 0 /\ r2.parses /\ r2.records # <<>>
              THEN [result |-> Data(r2.records, path), requests |-> 2]
              ELSE [result |-> None, requests |-> 2]
    ELSE [result |-> None, requests |-> 1]

\* ASUApi.get_schedule(path, date) for first response r1 and, when a second
\* request is made, its response r2; date is "none", "single" (YYYYMMDD) or
\* "range" (YYYYMMDD-YYYYMMDD, the only dates with '-' in them).
\* Gives the returned value and the number of requests made.
get_schedule(path, date, r1, r2) ==
    IF r1.status = 0 THEN [result |-> None, requests |-> 1]
    ELSE IF r1.status # 200 THEN [result |-> None, requests |-> 1]
    ELSE IF ~r1.parses THEN [result |-> None, requests |-> 1]
    ELSE IF r1.records # <<>>
         THEN [result |-> Data(r1.records, path), requests |-> 1]
    ELSE IF date = "range"
         THEN IF r2.status # 0 /\ r2.parses /\ r2.records # <<>>
              THEN [result |-> Data(r2.records, path), requests |-> 2]
              ELSE [result |-> None, requests |-> 2]
    ELSE [result |-> None, requests |-> 1]

(***************************************************************************)
(* TelegramBot.format_schedule                                             *)
(***************************************************************************)
RECURSIVE SortedSeq(_)
SortedSeq(S) ==
    IF S = {} THEN <<>>
    ELSE LET m == CHOOSE x \in S : \A y \in S : x <= y IN
         <<m>> \o SortedSeq(S \ {m})

RECURSIVE SelectLessons(_, _, _)
\* the records kept by the loop over records: those of target_group when
\* is_group_schedule, all of them otherwise; in record order
SelectLessons(records, is_group_schedule, target_group) ==
    IF records = <<>> THEN <<>>
    ELSE LET lesson == Head(records)
             lesson_groups == {groupCode(g) : g \in lesson.lessonGroups}
             rest == SelectLessons(Tail(records), is_group_schedule, target_group)
         IN IF is_group_schedule /\ target_group \notin lesson_groups
            THEN rest
            ELSE <<lesson>> \o rest

RECURSIVE InsertByStart(_, _)
InsertByStart(sorted, lesson) ==
    IF sorted = <<>> THEN <<lesson>>
    ELSE IF lesson.lessonTimeStart < Head(sorted).lessonTimeStart
         THEN <<lesson>> \o sorted
         ELSE <<Head(sorted)>> \o InsertByStart(Tail(sorted), lesson)

\* variant: the lessons of a date are left in the order of the response
SortByStart_unsorted(lessons) == lessons

RECURSIVE SortByStart(_)
\* lessons.sort(key=lambda x: x['lessonTimeStart']): a stable sort
SortByStart(lessons) ==
    IF lessons = <<>> THEN <<>>
    ELSE InsertByStart(SortByStart(SubSeq(lessons, 1, Len(lessons) - 1)),
                       lessons[Len(lessons)])

\* variant: the url is looked at before requested_group
ResolveGroup_url_first(schedule_data) ==
    IF ~schedule_data.url.lecturers
       /\ \E i \in 1..Len(schedule_data.records) :
             schedule_data.url.id \in schedule_data.records[i].lessonGroups
    THEN [is_group_schedule |-> TRUE,
          target_group |-> groupCode(schedule_data.url.id)]
    ELSE IF schedule_data.has_requested_group /\ ~schedule_data.url.lecturers
         THEN [is_group_schedule |-> TRUE,
               target_group |-> groupCode(schedule_data.requested_group)]
         ELSE [is_group_schedule |-> FALSE, target_group |-> 0]

\* the subject: requested_group first, else the group of the url whose
\* groupId is found in some record, else none (a lecturer url or no match)
ResolveGroup(schedule_data) ==
    IF schedule_data.has_requested_group
    THEN [is_group_schedule |-> TRUE,
          target_group |-> groupCode(schedule_data.requested_group)]
    ELSE IF ~schedule_data.url.lecturers
            /\ \E i \in 1..Len(schedule_data.records) :
                  schedule_data.url.id \in schedule_data.records[i].lessonGroups
         THEN [is_group_schedule |-> TRUE,
               target_group |-> groupCode(schedule_data.url.id)]
         ELSE [is_group_schedule |-> FALSE, target_group |-> 0]

\* format_schedule(schedule_data): "absent" is the text 'Расписание
\* отсутствует', "raise" a KeyError on a record that lacks a key, "text" the
\* rendered schedule: its days in ascending date order, each with its lessons
format_schedule(schedule_data) ==
    IF schedule_data.kind # "data" \/ schedule_data.records = <<>>
    THEN [kind |-> "absent", days |-> <<>>]
    ELSE IF \E i \in 1..Len(schedule_data.records) :
                ~schedule_data.records[i].wellformed
    THEN [kind |-> "raise", days |-> <<>>]
    ELSE LET subject == ResolveGroup(schedule_data)
             kept == SelectLessons(schedule_data.records,
                                   subject.is_group_schedule, subject.target_group)
             dates == SortedSeq({kept[i].lessonDate : i \in 1..Len(kept)})
             OfDate(d) == SelectSeq(kept, LAMBDA l : l.lessonDate = d)
         IN [kind |-> "text",
             days |-> [k \in 1..Len(dates) |->
                          [date |-> dates[k],
                           lessons |-> SortByStart(OfDate(dates[k]))]]]

\* ---- format_schedule called on its own, as by the handlers of
\* 'group_', 'tomorrow_', 'week_' and 'lecturer_' callbacks
\* the group asked for and a group that shares lessons with it
FormatGroups == {1, 2}

\* the records given to it: lessons of these groups, of one or two dates and
\* start times
FormatLessons ==
    [lessonGroups : SUBSET FormatGroups \ {{}}, lessonDate : 1..2,
     lessonTimeStart : 1..2, wellformed : {TRUE}]
     \cup {[lessonGroups |-> {}, lessonDate |-> 1, lessonTimeStart |-> 1,
            wellformed |-> FALSE]}

\* the schedule_data: a document with records and its url, with
\* schedule['requested_group'] = group where the 'tomorrow_' handler set it
FormatInputs ==
    {[kind |-> "data", records |-> rs, url |-> u,
      has_requested_group |-> h, requested_group |-> IF h THEN g ELSE 0] :
        rs \in SeqsUpTo(FormatLessons, MaxLessons) \ {<<>>},
        u \in {GroupPath(1), [lecturers |-> TRUE, id |-> 1]},
        h \in BOOLEAN, g \in {1}}

NotYet == [kind |-> "not called", days |-> <<>>]

\* message = self.format_schedule(schedule)
FormatCall ==
    /\ fmt_out = NotYet
    /\ fmt_in.kind = "data"
    /\ fmt_out' = format_schedule(fmt_in)
    /\ UNCHANGED fmt_in
    /\ UNCHANGED <<qvars, pvars, tvars, svars, bvars, avars, cvars, rvars, hvars,
                   jvars>>

(***************************************************************************)
(* Preference store and the notification tick                              *)
(***************************************************************************)
\* notification_times of setup_notification_jobs, in minutes of the day:
\* '08:00', '12:00', '16:00', '20:00', '22:00'
notification_times == <<480, 720, 960, 1200, 1320>>

Buckets == {notification_times[i] : i \in 1..Len(notification_times)}

\* the notification times of the rows the store starts with
PrefTimes == {notification_times[1], notification_times[2]}

\* seconds between the time of a run_daily timer and the moment the callback
\* reads the clock
Delays == {0, 30, 60}

\* datetime.now().strftime('%H:%M') for a clock in seconds of the day: the
\* minute of the day, the seconds are dropped
strftime_HM(seconds) == seconds \div 60

\* Database.get_users_for_notification(notification_time): the rows with
\* is_active = TRUE, TIME(notification_time) = the argument and
\* is_banned = FALSE, ORDER BY u.id
MatchingSubscribers(notification_time) ==
    {s \in Subscribers : /\ prefs[s].active
                         /\ prefs[s].time = notification_time
                         /\ s \notin banned}

get_users_for_notification(notification_time) ==
    LET ids == SortedSeq(MatchingSubscribers(notification_time)) IN
    [i \in 1..Len(ids) |-> [tg_id |-> ids[i], groupId |-> group_of(ids[i])]]

\* what the upstream answered for a row, for the record of the tick:
\* "data" (records, some of the row's group), "foreign" (records, none of the
\* row's group), "empty" (200, no records), "transport", "http_status", "parse"
Outcome(resp, g) ==
    IF resp.status = 0 THEN "transport"
    ELSE IF resp.status # 200 THEN "http_status"
    ELSE IF ~resp.parses THEN "parse"
    ELSE IF resp.records = <<>> THEN "empty"
    ELSE IF \E i \in 1..Len(resp.records) : g \in resp.records[i].lessonGroups
         THEN "data"
    ELSE "foreign"

NoBody == [kind |-> "none", text |-> [kind |-> "absent", days |-> <<>>]]

\* the timer of bucket b calls check_notifications; the callback reads the
\* clock d seconds after the bucket's time and selects the rows
TickStart(b, d) ==
    /\ tpc \in {"idle", "done"}
    /\ bucket' = b
    /\ current_time' = strftime_HM(b * 60 + d)
    /\ users' = get_users_for_notification(current_time')
    /\ idx' = 1
    /\ tpc' = IF users' = <<>> THEN "done" ELSE "fetch"
    /\ schedule' = None
    /\ message' = NoBody
    /\ sent' = [s \in Subscribers |-> "none"]
    /\ lookup' = [s \in Subscribers |-> "none"]
    /\ skipped' = [s \in Subscribers |-> 0]
    /\ tickPuts' = 0
    /\ directCalls' = 0
    /\ UNCHANGED <<qvars, pvars, bvars, avars, cvars, ovars>>
    /\ UNCHANGED svars

\* variant: a handler that leaves the for loop ("break")
AfterRowError_break(i, n) == n + 1

\* the index of the row the for loop takes after the row at i raised and the
\* handler logged it: "continue"
AfterRowError(i, n) == i + 1

\* schedule = await self.api.get_schedule(str(user['groupId']), date=tomorrow)
TickFetch ==
    /\ tpc = "fetch"
    /\ \E r1 \in UpstreamResponses :
         LET user == users[idx] IN
         /\ schedule' = get_schedule(GroupPath(user.groupId), "single", r1, r1).result
         /\ lookup' = [lookup EXCEPT ![user.tg_id] = Outcome(r1, user.groupId)]
    /\ tpc' = "build"
    /\ UNCHANGED <<bucket, current_time, users, idx, message, sent, skipped,
                   tickPuts, directCalls>>
    /\ UNCHANGED <<qvars, pvars, bvars, avars, cvars, ovars>>
    /\ UNCHANGED svars

\* if schedule and 'schedule' in schedule: message = format_schedule(schedule)
\* with the "tomorrow" heading, else the "no classes tomorrow" text; an
\* exception of format_schedule is logged with the tg_id and the loop continues
TickBuild ==
    /\ tpc = "build"
    /\ LET user == users[idx]
           text == format_schedule(schedule)
       IN IF schedule.kind = "data" /\ text.kind = "raise"
          THEN /\ skipped' = [skipped EXCEPT ![user.tg_id] = @ + 1]
               /\ idx' = AfterRowError(idx, Len(users))
               /\ tpc' = IF idx' > Len(users) THEN "done" ELSE "fetch"
               /\ message' = NoBody
               /\ schedule' = None
          ELSE /\ message' = IF schedule.kind = "data"
                             THEN [kind |-> "tomorrow", text |-> text]
                             ELSE [kind |-> "noclasses", text |-> NoBody.text]
               /\ tpc' = "send"
               /\ UNCHANGED <<skipped, idx, schedule>>
    /\ UNCHANGED <<bucket, current_time, users, sent, lookup, tickPuts, directCalls>>
    /\ UNCHANGED <<qvars, pvars, svars, bvars, avars, cvars, ovars>>

\* await context.bot.send_message(chat_id=user['tg_id'], text=message, ...)
\* returned: "Notification sent" is logged
TickSendOk ==
    /\ tpc = "send"
    /\ directCalls' = directCalls + 1
    /\ sent' = [sent EXCEPT ![users[idx].tg_id] = message.kind]
    /\ idx' = idx + 1
    /\ tpc' = IF idx' > Len(users) THEN "done" ELSE "fetch"
    /\ message' = NoBody
    /\ schedule' = None
    /\ UNCHANGED <<bucket, current_time, users, lookup, skipped, tickPuts>>
    /\ allSpaced' = SpacedCall(allSpaced, sinceAny)
    /\ sinceAny' = 0
    /\ UNCHANGED <<qvars, pvars, bvars, avars, cvars, ovars>>

\* context.bot.send_message raised: logged with the tg_id, continue
TickSendFail ==
    /\ tpc = "send"
    /\ directCalls' = directCalls + 1
    /\ skipped' = [skipped EXCEPT ![users[idx].tg_id] = @ + 1]
    /\ idx' = AfterRowError(idx, Len(users))
    /\ tpc' = IF idx' > Len(users) THEN "done" ELSE "fetch"
    /\ message' = NoBody
    /\ schedule' = None
    /\ UNCHANGED <<bucket, current_time, users, sent, lookup, tickPuts>>
    /\ allSpaced' = SpacedCall(allSpaced, sinceAny)
    /\ sinceAny' = 0
    /\ UNCHANGED <<qvars, pvars, bvars, avars, cvars, ovars>>

(***************************************************************************)
(* TelegramBot.process_broadcast                                           *)
(***************************************************************************)
\* users = [u for u in self.db.get_all_users() if not u.get('is_banned')]:
\* n users are left; the counters start at 0
BroadcastStart(n) ==
    /\ bpc \in {"idle", "done"}
    /\ total_users' = n
    /\ success_count' = 0
    /\ fail_count' = 0
    /\ bcalls' = 0
    /\ bidx' = 1
    /\ bpc' = IF n = 0 THEN "report" ELSE "send"
    /\ UNCHANGED <<qvars, pvars, tvars, svars, avars, cvars, ovars>>

\* the position after the iteration for the user at i
BroadcastNext(i, n) == IF i + 1 > n THEN "report" ELSE "send"

\* "except Exception: fail_count += 1" reached from status_message.edit_text
fail_count_after_progress_error(n) == n + 1

\* await context.bot.send_message(...) returned: success_count += 1, then the
\* progress report every progress_every successes, else the sleep
BroadcastSendOk ==
    /\ bpc = "send"
    /\ bcalls' = bcalls + 1
    /\ allSpaced' = SpacedCall(allSpaced, sinceAny)
    /\ sinceAny' = 0
    /\ success_count' = success_count + 1
    /\ bpc' = IF success_count' % progress_every = 0 THEN "progress" ELSE "sleep"
    /\ UNCHANGED <<total_users, bidx, fail_count>>
    /\ UNCHANGED <<qvars, pvars, tvars, avars, cvars, ovars>>

\* context.bot.send_message raised: fail_count += 1, logged, next user
BroadcastSendFail ==
    /\ bpc = "send"
    /\ bcalls' = bcalls + 1
    /\ allSpaced' = SpacedCall(allSpaced, sinceAny)
    /\ sinceAny' = 0
    /\ fail_count' = fail_count + 1
    /\ bidx' = bidx + 1
    /\ bpc' = BroadcastNext(bidx, total_users)
    /\ UNCHANGED <<total_users, success_count>>
    /\ UNCHANGED <<qvars, pvars, tvars, avars, cvars, ovars>>

\* await status_message.edit_text(...) returned
BroadcastProgressOk ==
    /\ bpc = "progress"
    /\ bpc' = "sleep"
    /\ UNCHANGED <<total_users, bidx, success_count, fail_count, bcalls>>
    /\ UNCHANGED <<qvars, pvars, tvars, svars, avars, cvars, ovars>>

\* status_message.edit_text raised inside the same try block: the handler
\* of a failed delivery runs, the sleep is skipped, next user
BroadcastProgressFail ==
    /\ bpc = "progress"
    /\ fail_count' = fail_count_after_progress_error(fail_count)
    /\ bidx' = bidx + 1
    /\ bpc' = BroadcastNext(bidx, total_users)
    /\ UNCHANGED <<total_users, success_count, bcalls>>
    /\ UNCHANGED <<qvars, pvars, tvars, svars, avars, cvars, ovars>>

\* await asyncio.sleep(0.05) returned: 50 ms have passed for every sender
BroadcastSleep ==
    /\ bpc = "sleep"
    /\ sinceAny' = Later(sinceAny)
    /\ bidx' = bidx + 1
    /\ bpc' = BroadcastNext(bidx, total_users)
    /\ elapsed' = min_delay
    /\ UNCHANGED <<total_users, success_count, fail_count, bcalls, allSpaced>>
    /\ UNCHANGED <<message_queue, nPut, qpc, cur, calls, spaced, status,
                   attempts, task_done, errlog>>
    /\ UNCHANGED <<pvars, tvars, avars, cvars, ovars>>

\* the final report with success_count, fail_count and total_users
BroadcastReport ==
    /\ bpc = "report"
    /\ bpc' = "done"
    /\ UNCHANGED <<total_users, bidx, success_count, fail_count, bcalls>>
    /\ UNCHANGED <<qvars, pvars, tvars, svars, avars, cvars, ovars>>

(***************************************************************************)
(* ASUApi.get_schedule called on its own                                   *)
(***************************************************************************)
Dates == {"none", "single", "range"}

\* the responses with at most one record
AdapterResponses == {r \in UpstreamResponses : Len(r.records) <= 1}

NoAdapterCall ==
    [called |-> FALSE, date |-> "none", r1 |-> [status |-> 0, parses |-> FALSE, records |-> <<>>],
     r2 |-> [status |-> 0, parses |-> FALSE, records |-> <<>>],
     result |-> None, requests |-> 0]

\* await self.api.get_schedule(str(g), date) with first response r1 and, if a
\* second request is made, response r2
AdapterCall(g, date, r1, r2) ==
    /\ LET out == get_schedule(GroupPath(g), date, r1, r2) IN
       adapter_call' = [called |-> TRUE, date |-> date, r1 |-> r1, r2 |-> r2,
                        result |-> out.result, requests |-> out.requests]
    /\ UNCHANGED <<qvars, pvars, tvars, svars, bvars, cvars, ovars>>

(***************************************************************************)
(* TelegramBot.get_cached_schedule, clear_expired_cache,                   *)
(* admin_clear_cache_handler                                               *)
(***************************************************************************)
\* cache keys: (group_id, date) pairs
Keys == 1..NKeys

NoTime == 0 - 1

\* what self.api.get_schedule(group_id, date) returns when it is called
\* without await at minute t: a coroutine object, which is not None
Coroutine(t) == [kind |-> "coroutine", at |-> t]

NoCacheOp ==
    [op |-> "none", key |-> 0, value |-> None, invoked |-> FALSE, body |-> FALSE,
     age |-> NoTime, cleared |-> FALSE]

\* ---- RedisCache: the shared cache
NoEntry == [kind |-> "absent"]

\* a schedule document stored for key k
Doc(k) == [kind |-> "doc", key |-> k]

\* json.dumps and json.loads
dumps(v) == [json |-> v]
loads(str) == str.json

NoRedisOp == [op |-> "none", raised |-> FALSE, logged |-> FALSE, result |-> <<>>]

\* redis keeps an entry set with ex=ttl for ttl
Live(entry, t) == entry # NoEntry /\ t - entry.set_at < default_ttl

\* lists of keys for get_many
KeyLists == SeqsUpTo(Keys, 2)

\* RedisCache.set_many(mapping) for the keys K: pipeline.set(key,
\* dumps(value), ex=self.default_ttl) for each, pipeline.execute(); an
\* exception is logged and not raised
set_many(K) ==
    /\ redis_cache
    /\ IF redis_up
       THEN /\ redis_store' = [k \in Keys |->
                                 IF k \in K
                                 THEN [kind |-> "entry", value |-> dumps(Doc(k)), set_at |-> now]
                                 ELSE redis_store[k]]
            /\ redis_op' = [NoRedisOp EXCEPT !.op = "set_many"]
       ELSE /\ redis_store' = redis_store
            /\ redis_op' = [NoRedisOp EXCEPT !.op = "set_many", !.logged = TRUE]
    /\ UNCHANGED <<redis_cache, redis_up>>
    /\ UNCHANGED <<qvars, pvars, tvars, svars, bvars, avars, cvars, fvars, hvars,
                   jvars>>

\* RedisCache.get_many(keys): pipeline.get for each key, execute, loads of
\* each value that is there; an exception is logged and [None] * len(keys)
\* is returned
get_many(keys) ==
    /\ redis_cache
    /\ redis_op' =
          IF redis_up
          THEN [NoRedisOp EXCEPT !.op = "get_many",
                    !.result = [i \in 1..Len(keys) |->
                                  IF Live(redis_store[keys[i]], now)
                                  THEN loads(redis_store[keys[i]].value)
                                  ELSE None]]
          ELSE [NoRedisOp EXCEPT !.op = "get_many", !.logged = TRUE,
                    !.result = [i \in 1..Len(keys) |-> None]]
    /\ UNCHANGED <<redis_cache, redis_up, redis_store>>
    /\ UNCHANGED <<qvars, pvars, tvars, svars, bvars, avars, cvars, fvars, hvars,
                   jvars>>

\* the redis server becomes unreachable, or reachable again
RedisChange ==
    /\ redis_up' = ~redis_up
    /\ UNCHANGED <<redis_cache, redis_store, redis_op>>
    /\ UNCHANGED <<qvars, pvars, tvars, svars, bvars, avars, cvars, fvars, hvars,
                   jvars>>

\* variant: a timestamp is never fresh
IsFresh_never(last, t) == FALSE

\* cache_key in self.cache_last_update and
\* datetime.now() - self.cache_last_update[cache_key] < self.cache_timeout
IsFresh(last, t) == last # NoTime /\ t - last < cache_timeout

\* current_time - update_time > self.cache_timeout
IsExpired(last, t) == last # NoTime /\ t - last > cache_timeout

\* the memo of functools.lru_cache
InMemo(memo, k) == \E i \in 1..Len(memo) : memo[i].key = k
MemoValue(memo, k) == (CHOOSE e \in {memo[i] : i \in 1..Len(memo)} : e.key = k).value
MemoWithout(memo, k) == SelectSeq(memo, LAMBDA e : e.key # k)
\* a hit moves the entry to the most recently used end
MemoHit(memo, k) ==
    Append(MemoWithout(memo, k), [key |-> k, value |-> MemoValue(memo, k)])
\* a miss stores the result; a full memo drops its least recently used entry
MemoStore(memo, k, v) ==
    Append(IF Len(memo) >= lru_maxsize THEN Tail(memo) ELSE memo,
           [key |-> k, value |-> v])

\* minutes since the last adapter call for k, NoTime if there was none
Age(k) == IF lastInvoke[k] = NoTime THEN NoTime ELSE now - lastInvoke[k]

\* self.get_cached_schedule(group_id, date) for key k
Lookup(k) ==
    /\ IF InMemo(lru, k)
       THEN \* lru_cache returns the stored result; the body does not run
            /\ lru' = MemoHit(lru, k)
            /\ cache_op' = [op |-> "lookup", key |-> k, value |-> MemoValue(lru, k),
                            invoked |-> FALSE, body |-> FALSE, age |-> Age(k),
                            cleared |-> cleared_since[k]]
            /\ UNCHANGED <<cache_last_update, lastInvoke, cleared_since>>
       ELSE IF IsFresh(cache_last_update[k], now)
       THEN \* return self.schedule_cache.get(cache_key)
            /\ lru' = MemoStore(lru, k, schedule_cache[k])
            /\ cache_op' = [op |-> "lookup", key |-> k, value |-> schedule_cache[k],
                            invoked |-> FALSE, body |-> TRUE, age |-> Age(k),
                            cleared |-> cleared_since[k]]
            /\ UNCHANGED <<cache_last_update, lastInvoke, cleared_since>>
       ELSE \* schedule = self.api.get_schedule(group_id, date); it is truthy
            /\ cache_last_update' = [cache_last_update EXCEPT ![k] = now]
            /\ lru' = MemoStore(lru, k, Coroutine(now))
            /\ lastInvoke' = [lastInvoke EXCEPT ![k] = now]
            /\ cleared_since' = [cleared_since EXCEPT ![k] = FALSE]
            /\ cache_op' = [op |-> "lookup", key |-> k, value |-> Coroutine(now),
                            invoked |-> TRUE, body |-> TRUE, age |-> Age(k),
                            cleared |-> cleared_since[k]]
    /\ UNCHANGED <<now, schedule_cache>>
    /\ UNCHANGED <<qvars, pvars, tvars, svars, bvars, avars, ovars>>

\* cleanup_task: self.clear_expired_cache()
Sweep ==
    /\ LET expired_keys == {k \in Keys : IsExpired(cache_last_update[k], now)} IN
       /\ cache_last_update' =
              [k \in Keys |-> IF k \in expired_keys THEN NoTime ELSE cache_last_update[k]]
       /\ lru' = IF expired_keys = {} THEN lru ELSE <<>>
    /\ cache_op' = [NoCacheOp EXCEPT !.op = "sweep"]
    /\ UNCHANGED <<now, schedule_cache, lastInvoke, cleared_since>>
    /\ UNCHANGED <<qvars, pvars, tvars, svars, bvars, avars, ovars>>

\* the body of admin_clear_cache_handler for an admin: schedule_cache.clear(),
\* cache_last_update.clear(), redis flushdb
clear_caches ==
    /\ schedule_cache' = [k \in Keys |-> None]
    /\ cache_last_update' = [k \in Keys |-> NoTime]
    /\ cleared_since' = [k \in Keys |-> lastInvoke[k] # NoTime]
    /\ cache_op' = [NoCacheOp EXCEPT !.op = "admin_clear"]
    /\ IF ~redis_cache
       THEN UNCHANGED <<redis_store, redis_op>>
       ELSE IF redis_up
       THEN \* self.redis_cache.redis.flushdb()
            /\ redis_store' = [k \in Keys |-> NoEntry]
            /\ redis_op' = [NoRedisOp EXCEPT !.op = "flushdb"]
       ELSE \* logging.warning("Error clearing Redis cache")
            /\ redis_store' = redis_store
            /\ redis_op' = [NoRedisOp EXCEPT !.op = "flushdb", !.logged = TRUE]
    /\ UNCHANGED <<now, lru, lastInvoke, redis_cache, redis_up>>

\* an admin opens the system menu and presses "clear cache"
AdminClear ==
    /\ clear_caches
    /\ UNCHANGED <<qvars, pvars, tvars, svars, bvars, avars, fvars, hvars, jvars>>

\* a minute passes
Advance ==
    /\ now < MaxTime
    /\ now' = now + 1
    /\ UNCHANGED <<cache_last_update, schedule_cache, lru, lastInvoke,
                   cleared_since, cache_op>>
    /\ UNCHANGED <<qvars, pvars, tvars, svars, bvars, avars, ovars>>

(***************************************************************************)
(* The job queue: setup_notification_jobs                                  *)
(***************************************************************************)
\* the job self.application.job_queue.run_daily(self.check_notifications,
\* time=target_time, name=f"notify_{time_str}") adds for the i-th entry of
\* notification_times
NotifyJob(i) ==
    [name |-> <<"notify", i>>, time |-> notification_times[i],
     callback |-> "check_notifications"]

\* the job run_repeating(self.cleanup_task, interval=6 hours, first=0) adds
CleanupJob == [name |-> <<"cleanup_task">>, time |-> 0, callback |-> "cleanup_task"]

\* for time_str in notification_times: run_daily(...), on top of the jobs
\* that are left
RegisterNotifyJobs(left) ==
    left \o [i \in 1..Len(notification_times) |-> NotifyJob(i)]

\* the job queue when TelegramBot.__init__ returns: the five daily jobs of
\* setup_notification_jobs, then the cleanup job
JobsAfterInit == RegisterNotifyJobs(<<>>) \o <<CleanupJob>>

\* variant: a setup that does not remove the jobs it finds
RemoveAll_keep(js) == js

\* for job in job_queue.jobs(): job.schedule_removal(): no job is left
RemoveAll(js) == <<>>

\* setup_notification_jobs called again: every job of the queue is removed
\* (the cleanup job with them), then the five daily jobs are registered
setup_notification_jobs ==
    /\ jobs' = RegisterNotifyJobs(RemoveAll(jobs))
    /\ UNCHANGED <<qvars, pvars, tvars, svars, bvars, avars, cvars, rvars, fvars,
                   hvars>>

\* the run_daily timer of a registered job fires and the job queue calls
\* check_notifications
TimerFires ==
    \E j \in 1..Len(jobs), d \in Delays :
        /\ jobs[j].callback = "check_notifications"
        /\ TickStart(jobs[j].time, d)

(***************************************************************************)
(* button_handler: the if/elif chain over query.data                       *)
(***************************************************************************)
\* query.data is modelled by query.data.split('_'), a sequence of tokens;
\* a group id is the token of its number, a time the token of its HH:MM text
GroupToken(g) == IF g = 1 THEN "1" ELSE IF g = 2 THEN "2" ELSE "3"

\* the times of the buttons of setup_notification_time
TimeButtons == <<"08:00", "12:00", "16:00", "20:00", "22:00">>

\* TIME('HH:MM') of the store, in minutes of the day
TIME(text) ==
    CASE text = "08:00" -> 480
      [] text = "12:00" -> 720
      [] text = "16:00" -> 960
      [] text = "20:00" -> 1200
      [] text = "22:00" -> 1320
      [] OTHER -> 0

\* the times a subscriber can select
SelectableTimes == {TIME(TimeButtons[i]) : i \in 1..Len(TimeButtons)}

\* os.getenv('ADMIN_IDS'): the first subscriber is an admin
ADMIN_IDS == {1}

\* query.data == pattern
Eq(pat, line) == [kind |-> "eq", pat |-> pat, line |-> line]
\* query.data.startswith(pattern + '_')
Prefix(pat, line) == [kind |-> "prefix", pat |-> pat, line |-> line]

\* the conditions of the chain in the order of the source; line is the line
\* of the if/elif
Chain == <<
    Eq(<<"start">>, 1394),
    Eq(<<"search", "group">>, 1431),
    Eq(<<"search", "lecturer">>, 1438),
    Eq(<<"saved", "groups">>, 1445),
    Eq(<<"saved", "lecturers">>, 1469),
    Prefix(<<"lecturer">>, 1493),
    Prefix(<<"group">>, 1551),
    Prefix(<<"tomorrow">>, 1596),
    Prefix(<<"week">>, 1634),
    Prefix(<<"save", "group">>, 1685),
    Prefix(<<"save", "lecturer">>, 1702),
    Prefix(<<"delete", "group">>, 1719),
    Prefix(<<"delete", "lecturer">>, 1732),
    Eq(<<"tech", "cards">>, 1743),
    Prefix(<<"techcard">>, 1789),
    Eq(<<"admin">>, 1820),
    Eq(<<"admin", "techcards">>, 1823),
    Eq(<<"admin", "detailed", "stats">>, 1826),
    Eq(<<"admin", "users">>, 1847),
    Eq(<<"admin", "users", "active">>, 1850),
    Eq(<<"admin", "users", "banned">>, 1853),
    Eq(<<"admin", "users", "search">>, 1856),
    Eq(<<"admin", "users", "mass">>, 1859),
    Eq(<<"admin", "broadcast">>, 1862),
    Eq(<<"admin", "system">>, 1865),
    Eq(<<"admin", "graphs">>, 1868),
    Prefix(<<"admin", "users", "active">>, 1871),
    Eq(<<"notify", "morning">>, 1880),
    Eq(<<"notify", "evening">>, 1880),
    Eq(<<"notify", "disable">>, 1880),
    Eq(<<"export", "google">>, 1883),
    Eq(<<"export", "apple">>, 1883),
    Eq(<<"export", "ical">>, 1883),
    Eq(<<"notifications">>, 1886),
    Prefix(<<"notify", "setup">>, 1889),
    Prefix(<<"set", "notify">>, 1892),
    Prefix(<<"notify", "disable">>, 1909),
    Prefix(<<"next", "page">>, 1926),
    Prefix(<<"prev", "page">>, 1926),
    Prefix(<<"next", "lecturer">>, 2003),
    Prefix(<<"prev", "lecturer">>, 2003),
    Eq(<<"admin", "techcard", "list">>, 2072),
    Eq(<<"admin", "techcard", "add">>, 2075),
    Prefix(<<"admin", "techcard">>, 2078),
    Eq(<<"admin", "clear", "cache">>, 2088),
    Eq(<<"admin", "check", "db">>, 2091),
    Eq(<<"admin", "techcard", "stats">>, 2094),
    Eq(<<"admin", "techcard", "search">>, 2097) >>

\* whether query.data satisfies the condition of an entry of the chain
Matches(data, c) ==
    IF c.kind = "eq" THEN data = c.pat
    ELSE /\ Len(data) > Len(c.pat)
         /\ SubSeq(data, 1, Len(c.pat)) = c.pat

NoBranch == 0

\* the if/elif chain from its i-th condition on: the line of the first
\* condition that holds, NoBranch if none does
RECURSIVE FirstMatch(_, _)
FirstMatch(data, i) ==
    IF i > Len(Chain) THEN NoBranch
    ELSE IF Matches(data, Chain[i]) THEN Chain[i].line
    ELSE FirstMatch(data, i + 1)

\* the branch of the chain that runs for query.data
Branch(data) == FirstMatch(data, 1)

NoPage == 0
NoUserData == [techcard_page |-> NoPage, state |-> "none"]

\* int(context.user_data.get('techcard_page', 1))
techcard_page == IF user_data.techcard_page = NoPage THEN 1 ELSE user_data.techcard_page

NoCallback ==
    [user |-> 0, data |-> <<>>, branch |-> NoBranch, handler |-> "none",
     result |-> "none"]

\* the buttons of the notification menus pressed by user for group g
NotifyButtons(g) ==
    {<<"notifications">>, <<"notify", "setup", GroupToken(g)>>,
     <<"notify", "disable", GroupToken(g)>>}
    \cup {<<"set", "notify", GroupToken(g), TimeButtons[i]>> : i \in 1..Len(TimeButtons)}

\* the buttons of admin_techcards_handler, admin_techcard_list_handler and
\* admin_system_handler
AdminButtons ==
    {<<"admin", "techcard", "add">>, <<"admin", "techcard", "list">>,
     <<"admin", "techcard", "search">>, <<"admin", "techcard", "stats">>,
     <<"admin", "techcard", "prev">>, <<"admin", "techcard", "next">>,
     <<"admin", "clear", "cache">>, <<"admin", "check", "db">>}

\* the handler a branch calls for query.data from user
HandlerOf(line, data, user) ==
    CASE line = 1886 -> "notification_settings"
      [] line = 1889 -> "setup_notification_time"
      [] line = 1892 -> "set_notification"
      [] line = 1909 -> "disable_notification"
      [] line = 2072 -> "admin_techcard_list_handler"
      [] line = 2075 -> "admin_techcard_add_handler"
      [] line = 2078 -> IF data[Len(data)] \in {"next", "prev"}
                        THEN "admin_techcard_list_handler" ELSE "none"
      [] line = 2088 -> "admin_clear_cache_handler"
      [] line = 2091 -> "admin_check_db_handler"
      [] line = 2094 -> "admin_techcard_stats_handler"
      [] line = 2097 -> "admin_techcard_search_handler"
      [] OTHER -> "none"

\* INSERT ... ON DUPLICATE KEY UPDATE notification_time =
\* VALUES(notification_time), is_active = TRUE on the row of (user, group),
\* the key the statement is written for
upsert(row, time) == [time |-> time, active |-> TRUE]

\* UPDATE user_notifications SET is_active = FALSE WHERE user_id = ... AND
\* group_id = ...
deactivate(row) == [row EXCEPT !.active = FALSE]

\* button_handler for a callback of user with query.data = data; ok is
\* whether the store executes the statement (FALSE: mysql.connector.Error,
\* logged, the Database method returns False)
button_handler(user, data, ok) ==
    \E line \in {Branch(data)} :
    \E handler \in {HandlerOf(line, data, user)} :
    LET action == data[Len(data)] IN
    /\ handled' = [user |-> user, data |-> data, branch |-> line,
                   handler |-> handler,
                   result |-> IF handler \in {"set_notification", "disable_notification"}
                              THEN IF ok THEN "True" ELSE "False"
                              ELSE "none"]
    /\ prefs' =
         IF handler = "set_notification" /\ ok
         THEN \* _, _, group_id, time = query.data.split('_')
              [prefs EXCEPT ![user] = upsert(prefs[user], TIME(data[4]))]
         ELSE IF handler = "disable_notification" /\ ok
         THEN [prefs EXCEPT ![user] = deactivate(prefs[user])]
         ELSE prefs
    /\ user_data' =
         IF line = 2078 /\ action = "next"
         THEN [user_data EXCEPT !.techcard_page = techcard_page + 1]
         ELSE IF line = 2078 /\ action = "prev"
         THEN [user_data EXCEPT !.techcard_page =
                                    IF techcard_page - 1 > 1 THEN techcard_page - 1 ELSE 1]
         ELSE IF handler = "admin_techcard_add_handler"
         THEN [user_data EXCEPT !.state = "waiting_for_techcard_add"]
         ELSE IF handler = "admin_techcard_search_handler" /\ user \in ADMIN_IDS
         THEN [user_data EXCEPT !.state = "waiting_for_techcard_search"]
         ELSE user_data
    /\ IF handler = "admin_clear_cache_handler" /\ user \in ADMIN_IDS
       THEN clear_caches
       ELSE UNCHANGED <<cvars, rvars>>
    /\ UNCHANGED <<banned, jobs>>
    /\ UNCHANGED <<qvars, tvars, svars, bvars, avars, fvars>>

\* a user presses a button of the notification menus of the user's group
NotifyButtonPressed ==
    \E user \in Subscribers, ok \in BOOLEAN :
      \E data \in NotifyButtons(group_of(user)) :
        button_handler(user, data, ok)

\* a user presses a button of the admin menus
AdminButtonPressed ==
    \E user \in Subscribers :
      \E data \in AdminButtons :
        /\ data = <<"admin", "techcard", "next">> => techcard_page < MaxPage
        /\ button_handler(user, data, TRUE)

(***************************************************************************)
(* Specifications                                                          *)
(***************************************************************************)
\* after TelegramBot.__init__: an empty queue, no queue task, no tick running;
\* the store holds any notification time and flags for each subscriber
Init ==
    /\ message_queue = <<>>
    /\ nPut = 0
    /\ qpc = "none"
    /\ cur = 0
    /\ elapsed = 0
    /\ calls = <<>>
    /\ spaced = TRUE
    /\ status = [r \in Requests |-> "new"]
    /\ attempts = [r \in Requests |-> 0]
    /\ task_done = [r \in Requests |-> 0]
    /\ errlog = 0
    /\ tpc = "idle"
    /\ bucket = notification_times[1]
    /\ current_time = notification_times[1]
    /\ users = <<>>
    /\ idx = 1
    /\ schedule = None
    /\ message = NoBody
    /\ sent = [s \in Subscribers |-> "none"]
    /\ lookup = [s \in Subscribers |-> "none"]
    /\ skipped = [s \in Subscribers |-> 0]
    /\ tickPuts = 0
    /\ directCalls = 0
    /\ sinceAny = -1
    /\ allSpaced = TRUE
    /\ bpc = "idle"
    /\ total_users = 0
    /\ bidx = 1
    /\ success_count = 0
    /\ fail_count = 0
    /\ bcalls = 0
    /\ adapter_call = NoAdapterCall
    /\ now = 0
    /\ cache_last_update = [k \in Keys |-> NoTime]
    /\ schedule_cache = [k \in Keys |-> None]
    /\ lru = <<>>
    /\ lastInvoke = [k \in Keys |-> NoTime]
    /\ cleared_since = [k \in Keys |-> FALSE]
    /\ cache_op = NoCacheOp
    /\ redis_cache = TRUE
    /\ redis_up = TRUE
    /\ redis_store = [k \in Keys |-> NoEntry]
    /\ redis_op = NoRedisOp
    /\ fmt_in = None
    /\ fmt_out = NotYet
    /\ handled = NoCallback
    /\ user_data = NoUserData
    /\ jobs = JobsAfterInit
    /\ prefs \in [Subscribers -> [time : PrefTimes, active : BOOLEAN]]
    /\ banned \in SUBSET Subscribers

\* the same with a store in which no row is active
InitQueue ==
    /\ message_queue = <<>>
    /\ nPut = 0
    /\ qpc = "none"
    /\ cur = 0
    /\ elapsed = 0
    /\ calls = <<>>
    /\ spaced = TRUE
    /\ status = [r \in Requests |-> "new"]
    /\ attempts = [r \in Requests |-> 0]
    /\ task_done = [r \in Requests |-> 0]
    /\ errlog = 0
    /\ tpc = "idle"
    /\ bucket = notification_times[1]
    /\ current_time = notification_times[1]
    /\ users = <<>>
    /\ idx = 1
    /\ schedule = None
    /\ message = NoBody
    /\ sent = [s \in Subscribers |-> "none"]
    /\ lookup = [s \in Subscribers |-> "none"]
    /\ skipped = [s \in Subscribers |-> 0]
    /\ tickPuts = 0
    /\ directCalls = 0
    /\ sinceAny = -1
    /\ allSpaced = TRUE
    /\ bpc = "idle"
    /\ total_users = 0
    /\ bidx = 1
    /\ success_count = 0
    /\ fail_count = 0
    /\ bcalls = 0
    /\ adapter_call = NoAdapterCall
    /\ now = 0
    /\ cache_last_update = [k \in Keys |-> NoTime]
    /\ schedule_cache = [k \in Keys |-> None]
    /\ lru = <<>>
    /\ lastInvoke = [k \in Keys |-> NoTime]
    /\ cleared_since = [k \in Keys |-> FALSE]
    /\ cache_op = NoCacheOp
    /\ redis_cache = TRUE
    /\ redis_up = TRUE
    /\ redis_store = [k \in Keys |-> NoEntry]
    /\ redis_op = NoRedisOp
    /\ fmt_in = None
    /\ fmt_out = NotYet
    /\ handled = NoCallback
    /\ user_data = NoUserData
    /\ jobs = JobsAfterInit
    /\ prefs = [s \in Subscribers |-> [time |-> notification_times[1], active |-> FALSE]]
    /\ banned = {}

\* the same with a store in which every row is active at the first bucket
InitSystem ==
    /\ message_queue = <<>>
    /\ nPut = 0
    /\ qpc = "none"
    /\ cur = 0
    /\ elapsed = 0
    /\ calls = <<>>
    /\ spaced = TRUE
    /\ status = [r \in Requests |-> "new"]
    /\ attempts = [r \in Requests |-> 0]
    /\ task_done = [r \in Requests |-> 0]
    /\ errlog = 0
    /\ tpc = "idle"
    /\ bucket = notification_times[1]
    /\ current_time = notification_times[1]
    /\ users = <<>>
    /\ idx = 1
    /\ schedule = None
    /\ message = NoBody
    /\ sent = [s \in Subscribers |-> "none"]
    /\ lookup = [s \in Subscribers |-> "none"]
    /\ skipped = [s \in Subscribers |-> 0]
    /\ tickPuts = 0
    /\ directCalls = 0
    /\ sinceAny = -1
    /\ allSpaced = TRUE
    /\ bpc = "idle"
    /\ total_users = 0
    /\ bidx = 1
    /\ success_count = 0
    /\ fail_count = 0
    /\ bcalls = 0
    /\ adapter_call = NoAdapterCall
    /\ now = 0
    /\ cache_last_update = [k \in Keys |-> NoTime]
    /\ schedule_cache = [k \in Keys |-> None]
    /\ lru = <<>>
    /\ lastInvoke = [k \in Keys |-> NoTime]
    /\ cleared_since = [k \in Keys |-> FALSE]
    /\ cache_op = NoCacheOp
    /\ redis_cache = TRUE
    /\ redis_up = TRUE
    /\ redis_store = [k \in Keys |-> NoEntry]
    /\ redis_op = NoRedisOp
    /\ fmt_in = None
    /\ fmt_out = NotYet
    /\ handled = NoCallback
    /\ user_data = NoUserData
    /\ jobs = JobsAfterInit
    /\ prefs = [s \in Subscribers |-> [time |-> notification_times[1], active |-> TRUE]]
    /\ banned = {}

NextQueue ==
    \/ send_message
    \/ run
    \/ DrainGet
    \/ DrainSendOk
    \/ DrainSendFail
    \/ DrainSleep
    \/ Elapse
    \/ shutdown

NextTick ==
    \/ \E b \in Buckets, d \in Delays : TickStart(b, d)
    \/ TickFetch
    \/ TickBuild
    \/ TickSendOk
    \/ TickSendFail

\* the delivery queue and its drain loop
SpecQueue == InitQueue /\ [][NextQueue]_vars

\* the notification ticks over any store
SpecTick == Init /\ [][NextTick]_vars

NextBroadcast ==
    \/ \E n \in 0..MaxRecipients : BroadcastStart(n)
    \/ BroadcastSendOk
    \/ BroadcastSendFail
    \/ BroadcastProgressOk
    \/ BroadcastProgressFail
    \/ BroadcastSleep
    \/ BroadcastReport

\* broadcasts, one after the other
SpecBroadcast == InitQueue /\ [][NextBroadcast]_vars

NextAdapter ==
    \E g \in GroupIds, date \in Dates, r1 \in AdapterResponses, r2 \in AdapterResponses :
        AdapterCall(g, date, r1, r2)

\* calls of ASUApi.get_schedule with any date and any upstream answers
SpecAdapter == InitQueue /\ [][NextAdapter]_vars

NextCache ==
    \/ \E k \in Keys : Lookup(k)
    \/ Sweep
    \/ AdminClear
    \/ RedisChange
    \/ Advance

\* cache operations in any order while time passes
SpecCache == InitQueue /\ [][NextCache]_vars

\* the users the broadcast goes to: the users that are not banned
BroadcastRecipients == Cardinality(Subscribers \ banned)

NextSystem ==
    \/ nPut = 0 /\ send_message
    \/ run
    \/ DrainGet
    \/ DrainSendOk
    \/ DrainSendFail
    \/ DrainSleep
    \/ Elapse
    \/ shutdown
    \/ tpc = "idle" /\ TickStart(notification_times[1], 0)
    \/ TickFetch
    \/ TickBuild
    \/ TickSendOk
    \/ TickSendFail
    \/ bpc = "idle" /\ BroadcastStart(BroadcastRecipients)
    \/ BroadcastSendOk
    \/ BroadcastSendFail
    \/ BroadcastSleep
    \/ BroadcastReport

\* the drain loop with one request, one tick of the first bucket and one
\* broadcast, interleaved
SpecSystem == InitSystem /\ [][NextSystem]_vars

\* the same, with self.redis_cache a RedisCache, or None if its construction
\* raised
InitTier2 ==
    /\ message_queue = <<>>
    /\ nPut = 0
    /\ qpc = "none"
    /\ cur = 0
    /\ elapsed = 0
    /\ calls = <<>>
    /\ spaced = TRUE
    /\ status = [r \in Requests |-> "new"]
    /\ attempts = [r \in Requests |-> 0]
    /\ task_done = [r \in Requests |-> 0]
    /\ errlog = 0
    /\ tpc = "idle"
    /\ bucket = notification_times[1]
    /\ current_time = notification_times[1]
    /\ users = <<>>
    /\ idx = 1
    /\ schedule = None
    /\ message = NoBody
    /\ sent = [s \in Subscribers |-> "none"]
    /\ lookup = [s \in Subscribers |-> "none"]
    /\ skipped = [s \in Subscribers |-> 0]
    /\ tickPuts = 0
    /\ directCalls = 0
    /\ sinceAny = -1
    /\ allSpaced = TRUE
    /\ bpc = "idle"
    /\ total_users = 0
    /\ bidx = 1
    /\ success_count = 0
    /\ fail_count = 0
    /\ bcalls = 0
    /\ adapter_call = NoAdapterCall
    /\ now = 0
    /\ cache_last_update = [k \in Keys |-> NoTime]
    /\ schedule_cache = [k \in Keys |-> None]
    /\ lru = <<>>
    /\ lastInvoke = [k \in Keys |-> NoTime]
    /\ cleared_since = [k \in Keys |-> FALSE]
    /\ cache_op = NoCacheOp
    /\ redis_cache \in BOOLEAN
    /\ redis_up = TRUE
    /\ redis_store = [k \in Keys |-> NoEntry]
    /\ redis_op = NoRedisOp
    /\ fmt_in = None
    /\ fmt_out = NotYet
    /\ handled = NoCallback
    /\ user_data = NoUserData
    /\ jobs = JobsAfterInit
    /\ prefs = [s \in Subscribers |-> [time |-> notification_times[1], active |-> FALSE]]
    /\ banned = {}

NextTier2 ==
    \/ \E k \in Keys : Lookup(k)
    \/ \E K \in SUBSET Keys : set_many(K)
    \/ \E keys \in KeyLists : get_many(keys)
    \/ RedisChange
    \/ AdminClear
    \/ now < 2 /\ Advance

\* cache lookups and operations of the shared cache, which may be
\* unreachable, during two minutes
SpecTier2 == InitTier2 /\ [][NextTier2]_vars

\* the same, with a schedule_data about to be formatted
InitFormat ==
    /\ message_queue = <<>>
    /\ nPut = 0
    /\ qpc = "none"
    /\ cur = 0
    /\ elapsed = 0
    /\ calls = <<>>
    /\ spaced = TRUE
    /\ status = [r \in Requests |-> "new"]
    /\ attempts = [r \in Requests |-> 0]
    /\ task_done = [r \in Requests |-> 0]
    /\ errlog = 0
    /\ tpc = "idle"
    /\ bucket = notification_times[1]
    /\ current_time = notification_times[1]
    /\ users = <<>>
    /\ idx = 1
    /\ schedule = None
    /\ message = NoBody
    /\ sent = [s \in Subscribers |-> "none"]
    /\ lookup = [s \in Subscribers |-> "none"]
    /\ skipped = [s \in Subscribers |-> 0]
    /\ tickPuts = 0
    /\ directCalls = 0
    /\ sinceAny = -1
    /\ allSpaced = TRUE
    /\ bpc = "idle"
    /\ total_users = 0
    /\ bidx = 1
    /\ success_count = 0
    /\ fail_count = 0
    /\ bcalls = 0
    /\ adapter_call = NoAdapterCall
    /\ now = 0
    /\ cache_last_update = [k \in Keys |-> NoTime]
    /\ schedule_cache = [k \in Keys |-> None]
    /\ lru = <<>>
    /\ lastInvoke = [k \in Keys |-> NoTime]
    /\ cleared_since = [k \in Keys |-> FALSE]
    /\ cache_op = NoCacheOp
    /\ redis_cache = TRUE
    /\ redis_up = TRUE
    /\ redis_store = [k \in Keys |-> NoEntry]
    /\ redis_op = NoRedisOp
    /\ fmt_in \in FormatInputs
    /\ fmt_out = NotYet
    /\ handled = NoCallback
    /\ user_data = NoUserData
    /\ jobs = JobsAfterInit
    /\ prefs = [s \in Subscribers |-> [time |-> notification_times[1], active |-> FALSE]]
    /\ banned = {}

NextFormat == FormatCall

\* format_schedule applied to any schedule_data with records
SpecFormat == InitFormat /\ [][NextFormat]_vars

NextNotify ==
    \/ tpc = "idle" /\ NotifyButtonPressed
    \/ tpc = "idle" /\ setup_notification_jobs
    \/ tpc = "idle" /\ TimerFires
    \/ TickFetch
    \/ TickBuild
    \/ TickSendOk
    \/ TickSendFail

\* the notification menus and the job queue, then a tick that one of the
\* registered timers starts
SpecNotify == InitQueue /\ [][NextNotify]_vars

NextJobs ==
    \/ NotifyButtonPressed
    \/ setup_notification_jobs

\* the notification menus and the registration of the timers
SpecJobs == InitQueue /\ [][NextJobs]_vars

NextButtons ==
    \/ NotifyButtonPressed
    \/ AdminButtonPressed

\* callbacks of the notification and admin menus
SpecButtons == InitQueue /\ [][NextButtons]_vars

Next == NextQueue \/ NextTick \/ NextBroadcast \/ NextAdapter \/ NextCache \/ NextTier2
            \/ NextFormat \/ NextNotify \/ NextButtons

Spec == Init /\ [][Next]_vars

(***************************************************************************)
(* Properties                                                              *)
(***************************************************************************)
InQueue(r) == \E i \in 1..Len(message_queue) : message_queue[i] = r

Selected == {users[i].tg_id : i \in 1..Len(users)}

LookupFailures == {"transport", "http_status", "parse"}

\* a body that says that no classes are scheduled
StatesNoClasses(m) ==
    \/ m.kind = "noclasses"
    \/ m.kind = "tomorrow" /\ m.text.kind = "absent"

\* C1: between any two successive bot.send_message calls of the drain loop
\* the minimum delay of 0.05 s elapses, whether the earlier call returned or
\* raised.
C1_SpacingAlways == spaced

\* C2: a tick makes no bot.send_message call itself; it only puts requests on
\* the message queue.
C2_TickOnlyEnqueues == directCalls = 0

\* C3: the rows a tick of bucket T selects are exactly the active preferences
\* whose time is T, whatever the minute at which the callback reads the clock.
C3_SelectsBucketRows ==
    tpc # "idle" =>
        Selected = {s \in Subscribers : prefs[s].active /\ prefs[s].time = bucket}

\* C4: when a tick ends, it has put exactly one request on the queue for each
\* selected subscriber whose lookup gave data or Empty, and it has logged a
\* skip for each selected subscriber whose lookup failed.
C4_TickCompleteness ==
    tpc = "done" =>
        /\ tickPuts = Cardinality({s \in Selected : lookup[s] \notin LookupFailures})
        /\ \A s \in Selected : lookup[s] \in LookupFailures => skipped[s] >= 1

\* C5: a subscriber whose lookup ended in a transport error, a non-200 status
\* or a parse failure gets no message from the tick.
C5_FailedLookupSkipped ==
    \A s \in Subscribers : lookup[s] \in LookupFailures => sent[s] = "none"

\* C6: when the lookup for a subscriber's group gives no records, or no
\* record of that group, the body built for the subscriber says that no
\* classes are scheduled.
C6_EmptySaysNoClasses ==
    tpc = "send" /\ lookup[users[idx].tg_id] \in {"empty", "foreign"}
        => StatesNoClasses(message)

\* C7: a failure for one row (lookup, formatting, delivery) never ends the
\* tick: when the tick is done every selected row has been looked up, and has
\* either been sent its message or been logged as failed.
C7_TickNeverAborts ==
    /\ \A i \in 1..Len(users) :
          i < idx => /\ lookup[users[i].tg_id] # "none"
                     /\ sent[users[i].tg_id] # "none" \/ skipped[users[i].tg_id] = 1
    /\ tpc = "done" => idx = Len(users) + 1

\* a tick that went on to its second row after the first row failed
C7_Witness ==
    /\ tpc = "done"
    /\ Len(users) >= 2
    /\ skipped[users[1].tg_id] = 1
    /\ sent[users[2].tg_id] # "none"

\* a capacity below the number of requests the callers offer
QueueCapacity == MaxEnq - 1

C9_Fifo == calls \o message_queue = [i \in 1..nPut |-> i]

\* two calls were made and a request that was put meanwhile waits
C9_Witness ==
    /\ Len(calls) >= 2
    /\ message_queue # <<>>
    /\ qpc # "stopped"

\* C10: a request leaves the queue once: exactly one bot.send_message call is
\* made for it, it ends delivered or failed (unless the loop is cancelled in
\* that call), and task_done is called once for it when its iteration ends.
C10_ConsumedOnce ==
    \A r \in 1..nPut :
        /\ \/ InQueue(r) /\ attempts[r] = 0 /\ task_done[r] = 0 /\ status[r] = "queued"
           \/ ~InQueue(r) /\ attempts[r] = 1
        /\ attempts[r] = 1 =>
              \/ r = cur /\ task_done[r] = 0 /\ status[r] \in {"inflight", "delivered"}
              \/ r # cur /\ task_done[r] = 1
                         /\ status[r] \in {"delivered", "failed", "cancelled"}
        /\ status[r] = "cancelled" => qpc = "stopped"

\* one request was delivered and one failed, both iterations over
C10_Witness ==
    \E r1, r2 \in 1..nPut :
        /\ status[r1] = "delivered" /\ task_done[r1] = 1 /\ r1 # cur
        /\ status[r2] = "failed" /\ task_done[r2] = 1
        /\ qpc = "get"

\* C11: when bot.send_message raises for a request, the failure is logged,
\* the request is not put back on the queue, no second call is made for it,
\* and the loop goes on to take the next request.
C11_FailureContinues ==
    [][(qpc = "send" /\ status'[cur] = "failed") =>
          /\ errlog' = errlog + 1
          /\ message_queue' = message_queue
          /\ attempts' = attempts
          /\ attempts[cur] = 1
          /\ qpc' = "get"]_vars

\* the first call failed and the loop made a call for the next request
C11_Witness ==
    /\ Len(calls) >= 2
    /\ status[calls[1]] = "failed"
    /\ errlog >= 1
    /\ ~InQueue(calls[1])

\* C12: a send that is in flight when shutdown cancels the loop completes
\* (its request ends delivered or failed), and the stopped loop takes no
\* further request.
C12_InFlightCompletes ==
    qpc = "stopped" =>
        \A r \in 1..nPut : attempts[r] >= 1 => status[r] \in {"delivered", "failed"}

\* C13: with a broadcast, a tick and the drain loop running concurrently, any
\* two successive bot.send_message calls of the whole program are at least
\* min_delay apart.
C13_SystemSpacing == allSpaced

\* C14: in the final report of a broadcast every recipient was attempted once
\* and success_count + fail_count = total_users.
C14_Accounting ==
    bpc = "done" =>
        /\ bcalls = total_users
        /\ success_count + fail_count = total_users

\* 200, a document that parses, no records in it
ZeroRecords(resp) == resp.status = 200 /\ resp.parses /\ resp.records = <<>>

\* C15: get_schedule makes a second request iff the date is a range and the
\* first response was a 200 with zero records; it never makes a third, and
\* for a single date or no date it makes one request only.
C15_FallbackIff ==
    adapter_call.called =>
        adapter_call.requests =
            IF adapter_call.date = "range" /\ ZeroRecords(adapter_call.r1) THEN 2 ELSE 1

\* a range query whose first answer had no records got its data from the
\* second request
C15_Witness ==
    /\ adapter_call.called
    /\ adapter_call.date = "range"
    /\ ZeroRecords(adapter_call.r1)
    /\ adapter_call.requests = 2
    /\ adapter_call.result.kind = "data"

\* a response that is a transport error, a non-200 status or a parse failure
IsError(resp) == resp.status # 200 \/ ~resp.parses

\* the outcome of the last call: "error", "data" or "empty" (a 200 with no
\* records, after the second request where one was made)
AdapterOutcome ==
    LET c == adapter_call IN
    IF IsError(c.r1) THEN "error"
    ELSE IF c.r1.records # <<>> THEN "data"
    ELSE IF c.requests = 2
         THEN IF IsError(c.r2) THEN "error"
              ELSE IF c.r2.records # <<>> THEN "data" ELSE "empty"
    ELSE "empty"

\* the values get_schedule returns when its first response is an error
ErrorResults ==
    {get_schedule(GroupPath(g), d, r1, r1).result :
        g \in GroupIds, d \in Dates, r1 \in {r \in AdapterResponses : IsError(r)}}

\* C16: the value returned for a 200 with no records differs from every value
\* returned for a transport error, a non-200 status or a parse failure.
C16_EmptyDistinctFromError ==
    (adapter_call.called /\ AdapterOutcome = "empty") =>
        adapter_call.result \notin ErrorResults

\* the last operation was a lookup of a key fetched less than ttl ago
LookupWithinTtl ==
    /\ cache_op.op = "lookup"
    /\ cache_op.age # NoTime
    /\ cache_op.age < cache_timeout

\* C17 as stated: whatever cache operations happen, two lookups of a key less
\* than ttl apart call the adapter at most once, i.e. no lookup calls it for
\* a key it was called for less than ttl ago.
C17_AtMostOnceWithinTtl == ~(LookupWithinTtl /\ cache_op.invoked)

\* C17: two lookups of a key less than ttl apart call the adapter at most
\* once, also with lookups of other keys and sweeps in between, unless
\* admin_clear_cache_handler cleared the cache between the two.
C17_AtMostOnceUnlessCleared ==
    (LookupWithinTtl /\ cache_op.invoked) => cache_op.cleared

\* a sweep dropped the memo, and the second lookup of the key within ttl ran
\* the body of get_cached_schedule without calling the adapter
C17_Witness ==
    /\ LookupWithinTtl
    /\ cache_op.body
    /\ ~cache_op.invoked
    /\ ~cache_op.cleared

\* C18: a lookup within ttl of the key's last fetch returns the value that
\* fetch returned, without calling the adapter, and never None.
C18_HitReturnsFetched ==
    (LookupWithinTtl /\ ~cache_op.cleared) =>
        /\ ~cache_op.invoked
        /\ cache_op.value = Coroutine(lastInvoke[cache_op.key])

\* C19: a lookup of a key whose last fetch is older than ttl calls the
\* adapter again and does not return the value cached before.
C19_StaleNeverServed ==
    (cache_op.op = "lookup" /\ cache_op.age # NoTime /\ cache_op.age > cache_timeout) =>
        /\ cache_op.invoked
        /\ cache_op.value = Coroutine(now)

\* C20: after the admin's cache clear and after the maintenance sweep the
\* cache holds no entry: no memoized result, no timestamp, no stored value.
C20_InvalidateAllEmpties ==
    cache_op.op \in {"sweep", "admin_clear"} =>
        /\ lru = <<>>
        /\ \A k \in Keys : cache_last_update[k] = NoTime /\ schedule_cache[k] = None

\* the step is a cache lookup
LookupStep == cache_op' # cache_op /\ cache_op'.op = "lookup"

\* C21: a lookup calls the adapter only after the shared cache had no live
\* entry for the key, and it writes the fetched value to the shared cache
\* with the ttl.
C21_TierOrder ==
    [][(LookupStep /\ cache_op'.invoked /\ redis_cache /\ redis_up) =>
          /\ ~Live(redis_store[cache_op'.key], now)
          /\ Live(redis_store'[cache_op'.key], now)
          /\ redis_store'[cache_op'.key].set_at = now]_vars

\* C22: an error of the shared cache is logged and never raised, get_many then
\* gives None for every key, and with the shared cache unreachable a lookup
\* still returns a fetched value.
C22_Tier2BestEffort ==
    [][/\ ~redis_op'.raised
       /\ (redis_op' # redis_op /\ ~redis_up) =>
              /\ redis_op'.logged
              /\ \A i \in 1..Len(redis_op'.result) : redis_op'.result[i] = None
       /\ (LookupStep /\ ~redis_up) => cache_op'.value # None]_vars

\* format_schedule was called for records that all have the keys it reads
Formatted == fmt_out # NotYet /\ fmt_out.kind # "raise"

\* the lessons of the output, day after day
RECURSIVE Flatten(_)
Flatten(days) ==
    IF days = <<>> THEN <<>> ELSE Head(days).lessons \o Flatten(Tail(days))

\* the schedule was asked for group 1: by its url or by requested_group
ForGroup == ~fmt_in.url.lecturers

\* C23: every lesson rendered for a schedule asked for a group has that
\* group in its group list.
C23_FilterCorrect ==
    (Formatted /\ ForGroup) =>
        \A i \in 1..Len(Flatten(fmt_out.days)) :
            1 \in Flatten(fmt_out.days)[i].lessonGroups

\* C24: when no lesson is left after the group filter the result is the "no
\* schedule" text; a schedule body is never without lessons.
C24_EmptyWhenNothingLeft ==
    Formatted => (fmt_out.kind = "text" => Flatten(fmt_out.days) # <<>>)

\* the days are in ascending date order, each date once, none without
\* lessons, and the lessons of a day are of its date, in ascending start order
GroupedAndSorted(days) ==
    /\ \A i \in 1..Len(days) : \A j \in 1..Len(days) :
           i < j => days[i].date < days[j].date
    /\ \A i \in 1..Len(days) :
           /\ days[i].lessons # <<>>
           /\ \A m \in 1..Len(days[i].lessons) :
                  /\ days[i].lessons[m].lessonDate = days[i].date
                  /\ \A n \in 1..Len(days[i].lessons) :
                         m < n => days[i].lessons[m].lessonTimeStart
                                      <= days[i].lessons[n].lessonTimeStart

\* three records of group 1, of one date, of two start times
ScenarioA ==
    /\ Len(fmt_in.records) = 3
    /\ \A i \in 1..3 : /\ 1 \in fmt_in.records[i].lessonGroups
                       /\ fmt_in.records[i].lessonDate = fmt_in.records[1].lessonDate
    /\ Cardinality({fmt_in.records[i].lessonTimeStart : i \in 1..3}) = 2

\* C25 as stated: the output is grouped by date and sorted, and three records
\* of one date in two class slots give one date with 2 lessons.
C25_TwoLessonsOfThree ==
    (Formatted /\ fmt_out.kind = "text") =>
        /\ GroupedAndSorted(fmt_out.days)
        /\ (ForGroup /\ ScenarioA) =>
               Len(fmt_out.days) = 1 /\ Len(fmt_out.days[1].lessons) = 2

\* C25: the output is grouped by date, dates ascending and each once, the
\* lessons of a date ascending by start time; every record the filter keeps
\* is one lesson, so three records of one date in two class slots give one
\* date with 3 lessons.
C25_GroupedSorted ==
    (Formatted /\ fmt_out.kind = "text") =>
        /\ GroupedAndSorted(fmt_out.days)
        /\ (ForGroup /\ ScenarioA) =>
               Len(fmt_out.days) = 1 /\ Len(fmt_out.days[1].lessons) = 3

\* three records of one date given with the later slot first came out as one
\* date with the earlier slot first
C25_Witness ==
    /\ Formatted
    /\ ForGroup /\ ScenarioA
    /\ fmt_in.records[1].lessonTimeStart > fmt_in.records[2].lessonTimeStart
    /\ Len(fmt_out.days) = 1
    /\ fmt_out.days[1].lessons[1].lessonTimeStart = 1

\* some record has the group of the url in its group list
UrlGroupInRecords ==
    \E i \in 1..Len(fmt_in.records) : fmt_in.url.id \in fmt_in.records[i].lessonGroups

\* the lessons of the output are the records with group g, or all records
KeptOnly(g) ==
    \A i \in 1..Len(fmt_in.records) :
        (\E m \in 1..Len(Flatten(fmt_out.days)) :
             Flatten(fmt_out.days)[m] = fmt_in.records[i])
            <=> g \in fmt_in.records[i].lessonGroups
KeptAll == Len(Flatten(fmt_out.days)) = Len(fmt_in.records)

C27_RerunSameRecipients ==
    [][(tpc = "done" /\ tpc' # "done" /\ bucket' = bucket) =>
           Selected' = Selected]_vars

\* a callback of subscriber s that the store executed
StoreCall(s, handler) ==
    /\ handled'.user = s
    /\ handled'.handler = handler
    /\ handled'.result = "True"

\* C28: after disable_notification for a preference no tick of any bucket
\* selects it until set_notification is called for it again; set_notification
\* on an existing preference, active or not, makes it active at the chosen
\* time; the tick of a bucket selects the active preferences of that bucket
\* and no preference of another bucket.
C28_PreferenceLifecycle ==
    [][\A s \in Subscribers :
         /\ StoreCall(s, "disable_notification") => ~prefs'[s].active
         /\ StoreCall(s, "set_notification") =>
                prefs'[s] = [time |-> TIME(handled'.data[4]), active |-> TRUE]
         /\ prefs'[s] # prefs[s] =>
                \/ StoreCall(s, "disable_notification")
                \/ StoreCall(s, "set_notification")
         /\ (tpc = "idle" /\ tpc' # "idle") =>
                /\ s \in Selected' => prefs[s].active /\ prefs[s].time = bucket'
                /\ (prefs[s].active /\ prefs[s].time = bucket' /\ s \notin banned)
                       => s \in Selected'
      ]_vars

\* the indexes of the jobs that call check_notifications at time b
TimersAt(b) ==
    {j \in 1..Len(jobs) : jobs[j].callback = "check_notifications" /\ jobs[j].time = b}

TimerTimes ==
    {jobs[j].time : j \in {i \in 1..Len(jobs) : jobs[i].callback = "check_notifications"}}

\* C29: the times a subscriber can select are the times of the registered
\* daily timers, there is exactly one timer for each of them, also after
\* setup_notification_jobs ran again, and every active preference has exactly
\* one timer at its time.
C29_TimersMatchSelectable ==
    /\ SelectableTimes = TimerTimes
    /\ \A b \in SelectableTimes : Cardinality(TimersAt(b)) = 1
    /\ \A s \in Subscribers :
         prefs[s].active => Cardinality(TimersAt(prefs[s].time)) = 1

\* setup_notification_jobs ran again and a subscriber then selected the last
\* time of the menu
C29_Witness ==
    /\ jobs # JobsAfterInit
    /\ handled.handler = "set_notification"
    /\ handled.result = "True"
    /\ prefs[handled.user] = [time |-> TIME("22:00"), active |-> TRUE]

\* the lines of the branches whose condition is query.data == data
DedicatedBranches(data) ==
    {Chain[i].line : i \in {j \in 1..Len(Chain) :
                                Chain[j].kind = "eq" /\ Chain[j].pat = data}}

\* C30: a callback value that has a branch of its own (query.data == value)
\* reaches that branch and the handler the branch calls; no earlier branch of
\* the chain captures it.
C30_DedicatedBranchReached ==
    \A line \in DedicatedBranches(handled.data) :
        /\ handled.branch = line
        /\ handled.handler = HandlerOf(line, handled.data, handled.user)

====
